---------------------------- MODULE Spec2Model ----------------------------
(***************************************************************************)
(* Speed-radar detection engine of SUMOIOT: SpeedRadar and RadarManager    *)
(* (src/sensorsScripts/speedRadar.py) with the telemetry provider (TraCI), *)
(* the violation log file and the backend collector as environment.        *)
(*                                                                         *)
(* Coordinates, speeds and steps are integers.  The display-only fields of *)
(* a violation (license plate, km/h conversions, description) are left     *)
(* out of the violation record; no state depends on them.                  *)
(***************************************************************************)
EXTENDS Integers, Sequences, FiniteSets, TLC

VARIABLES
    manager,    \* the RadarManager object: detection_method, initialized, radars
                \* (the list of SpeedRadar objects), violations_log; with it the
                \* records appended to the log file (log_file), the requests.post
                \* calls made to the backend (http), and whether an exception has
                \* escaped a call and ended the process (raised)
    step,       \* current_step of the last call (-1: none yet)
    call,       \* the last direct call of a SpeedRadar method, or NoCall
    ret,        \* what that call returned
    nticks,     \* calls made so far (bounds the run)
    driver,     \* the script simulation.py: where it is (pc), its simulation_id and
                \* loop variable, the outcome of opening the configuration file,
                \* the start/end posts it made; NoDriver where the manager is
                \* driven without the script
    shadow      \* two more managers given the same calls as manager, one that
                \* never cleans its cooldown tables up and one that cleans them up
                \* in every call; NoShadow where none is run alongside

vars == <<manager, step, call, ret, nticks, driver, shadow>>

detection_method == manager.detection_method
initialized == manager.initialized
radars == manager.radars
violations_log == manager.violations_log
log_file == manager.log_file
http == manager.http
fatal == manager.raised

----------------------------------------------------------------------------
(* Program constants *)

\* SpeedRadar.__init__: self.cooldown_steps = 100
cooldown_steps == 100

\* RadarManager.check_all_vehicles: if current_step % 500 == 0
CLEANUP_INTERVAL == 500

METHOD_EDGE_BASED == "edge"
METHOD_CONTEXT_SUB == "subscription"
METHOD_FULL_SCAN == "full"

Methods == {METHOD_EDGE_BASED, METHOD_CONTEXT_SUB, METHOD_FULL_SCAN}

\* Python's None
None == [none |-> TRUE]

\* no SpeedRadar method has been called directly
NoCall == [op |-> "none"]

\* the manager is not run by simulation.py
NoDriver == [pc |-> "none"]

\* no manager is run alongside
NoShadow == [never |-> None, always |-> None]

----------------------------------------------------------------------------
(* Bounds of the model *)

\* calls of check_all_vehicles (or of check_vehicle / cleanup) in one run
MaxTicks == 3

\* violations a run may log before the model stops offering calls
MaxLog == 4

\* calls of check_all_vehicles in one run in which the backend may fail
MaxNetTicks == 2

\* direct calls of check_vehicle and cleanup_old_cooldowns in one run
MaxCalls == 3

----------------------------------------------------------------------------
(* The zone configuration file, radars_config.json: two overlapping zones  *)
(* with different limits.                                                  *)

radars_data ==
    << [id |-> "R1", x |-> 0, y |-> 0, speed_limit |-> 1, detection_radius |-> 2],
       [id |-> "R2", x |-> 2, y |-> 0, speed_limit |-> 2, detection_radius |-> 2] >>

\* an empty Python dict
EmptyDict == [k \in {} |-> 0]

\* SpeedRadar.__init__
SpeedRadar(radar_id, x, y, speed_limit, detection_radius) ==
    [ id |-> radar_id,
      x |-> x,
      y |-> y,
      speed_limit |-> speed_limit,
      detection_radius |-> detection_radius,
      bbox_min_x |-> x - detection_radius,
      bbox_max_x |-> x + detection_radius,
      bbox_min_y |-> y - detection_radius,
      bbox_max_y |-> y + detection_radius,
      cooldown_steps |-> cooldown_steps,
      violation_cooldowns |-> EmptyDict, \* {} : vehicle_id -> step_when_caught
      nearby_edges |-> << >>,
      edges_initialized |-> FALSE,
      total_violations |-> 0,
      total_checks |-> 0 ]

\* RadarManager.load_radars: one SpeedRadar per record, in file order
load_radars ==
    [ i \in DOMAIN radars_data |->
        SpeedRadar(radars_data[i].id, radars_data[i].x, radars_data[i].y,
                   radars_data[i].speed_limit, radars_data[i].detection_radius) ]

----------------------------------------------------------------------------
(* The road network seen through TraCI (traci.edge, traci.lane)            *)

\* traci.edge.getIDList()
EdgeIDList == << "e_near", ":j0", "e_long", "e_far", "e_side" >>

\* edge_id.startswith(':') : the ids of junction-internal edges
startswith_colon(edge_id) == edge_id \in {":j0"}

\* traci.edge.getLaneNumber(edge_id)
getLaneNumber(edge_id) == IF edge_id = "e_near" THEN 2 ELSE 1

\* traci.lane.getShape(f"{edge_id}_{lane_idx}") : the lane's polyline
getShape(edge_id, lane_idx) ==
    CASE edge_id = "e_near" /\ lane_idx = 0 -> << <<-1, 0>>, <<1, 0>> >>
      [] edge_id = "e_near" /\ lane_idx = 1 -> << <<-1, 0>>, <<1, 0>> >>
      [] edge_id = ":j0"                    -> << <<0, 0>>, <<1, 0>> >>
      [] edge_id = "e_long"                 -> << <<-4, 1>>, <<6, 1>> >>
      [] edge_id = "e_side"                 -> << <<1, -1>>, <<1, 1>> >>
      [] OTHER                              -> << <<6, 0>>, <<8, 0>> >>

----------------------------------------------------------------------------
(* SpeedRadar *)

Range(s) == { s[i] : i \in DOMAIN s }

\* is_in_detection_zone without the circle check
is_in_detection_zone_box(self, vehicle_x, vehicle_y) ==
    /\ self.bbox_min_x <= vehicle_x /\ vehicle_x <= self.bbox_max_x
    /\ self.bbox_min_y <= vehicle_y /\ vehicle_y <= self.bbox_max_y

\* SpeedRadar.is_in_detection_zone: bounding box first, then the circle
\* (distance <= radius, compared on the squares)
is_in_detection_zone(self, vehicle_x, vehicle_y) ==
    IF ~ ( self.bbox_min_x <= vehicle_x /\ vehicle_x <= self.bbox_max_x
           /\ self.bbox_min_y <= vehicle_y /\ vehicle_y <= self.bbox_max_y )
    THEN FALSE
    ELSE (vehicle_x - self.x) * (vehicle_x - self.x)
             + (vehicle_y - self.y) * (vehicle_y - self.y)
           <= self.detection_radius * self.detection_radius

\* find_nearby_edges, "for point in shape": some point of the lane is in the zone
ShapeInZone(self, shape) ==
    \E k \in DOMAIN shape : is_in_detection_zone(self, shape[k][1], shape[k][2])

\* ScanLanes going on to the next lane after a hit
RECURSIVE ScanLanes_all_lanes(_, _, _, _)
ScanLanes_all_lanes(self, nearby, edge_id, lane_idx) ==
    IF lane_idx >= getLaneNumber(edge_id) THEN nearby
    ELSE ScanLanes_all_lanes(self,
             IF ShapeInZone(self, getShape(edge_id, lane_idx))
             THEN Append(nearby, edge_id) ELSE nearby,
             edge_id, lane_idx + 1)

\* find_nearby_edges, "for lane_idx in range(lane_count)": the edge is appended
\* at the first lane with a point in the zone and the other lanes are skipped
RECURSIVE ScanLanes(_, _, _, _)
ScanLanes(self, nearby, edge_id, lane_idx) ==
    IF lane_idx >= getLaneNumber(edge_id) THEN nearby
    ELSE LET found == IF ShapeInZone(self, getShape(edge_id, lane_idx))
                      THEN Append(nearby, edge_id) ELSE nearby
         IN  IF edge_id \in Range(found) THEN found
             ELSE ScanLanes(self, found, edge_id, lane_idx + 1)

\* find_nearby_edges, "for edge_id in all_edges", internal edges skipped
RECURSIVE ScanEdges(_, _, _)
ScanEdges(self, nearby, all_edges) ==
    IF all_edges = << >> THEN nearby
    ELSE LET edge_id == Head(all_edges)
         IN  IF startswith_colon(edge_id)
             THEN ScanEdges(self, nearby, Tail(all_edges))
             ELSE ScanEdges(self, ScanLanes(self, nearby, edge_id, 0), Tail(all_edges))

\* find_nearby_edges without the test of edges_initialized
find_nearby_edges_again(self) ==
    [self EXCEPT !.nearby_edges = ScanEdges(self, self.nearby_edges, EdgeIDList),
                 !.edges_initialized = TRUE]

\* SpeedRadar.find_nearby_edges
find_nearby_edges(self) ==
    IF self.edges_initialized THEN self
    ELSE [self EXCEPT !.nearby_edges = ScanEdges(self, self.nearby_edges, EdgeIDList),
                      !.edges_initialized = TRUE]

\* the getShape calls find_nearby_edges makes for an edge: one per lane up to
\* the first lane with a point in the zone
RECURSIVE ShapeQueries(_, _, _)
ShapeQueries(self, edge_id, lane_idx) ==
    IF lane_idx >= getLaneNumber(edge_id) THEN 0
    ELSE IF ShapeInZone(self, getShape(edge_id, lane_idx)) THEN 1
    ELSE 1 + ShapeQueries(self, edge_id, lane_idx + 1)

\* the getLaneNumber and getShape calls for the edges all_edges
RECURSIVE EdgeQueries(_, _)
EdgeQueries(self, all_edges) ==
    IF all_edges = << >> THEN 0
    ELSE (IF startswith_colon(Head(all_edges)) THEN 0
          ELSE 1 + ShapeQueries(self, Head(all_edges), 0))
         + EdgeQueries(self, Tail(all_edges))

\* the traci calls a call of find_nearby_edges makes: none after the early
\* return, else getIDList and the calls for the edges
topology_queries(self) ==
    IF self.edges_initialized THEN 0
    ELSE 1 + EdgeQueries(self, EdgeIDList)

----------------------------------------------------------------------------
(* The telemetry snapshot (traci.vehicle, traci.edge, traci.poi)           *)

Vehicles == {"v1", "v2"}

\* the vehicle is not in the simulation
Absent == [status |-> "absent", edge |-> "", pos |-> <<0, 0>>, speed |-> 0]

\* SelectSeq with a captured set: the members of s that are in S, in order
RECURSIVE Filter(_, _)
Filter(s, S) ==
    IF s = << >> THEN << >>
    ELSE IF Head(s) \in S THEN <<Head(s)>> \o Filter(Tail(s), S)
    ELSE Filter(Tail(s), S)

\* traci.vehicle.getIDList(): every vehicle that is listed.  A "gone" vehicle
\* is still listed but its queries raise (it left between listing and query).
getIDList(tr) ==
    Filter(tr.order, { v \in Vehicles : tr.vehicles[v].status # "absent" })

\* traci.edge.getLastStepVehicleIDs(edge_id)
getLastStepVehicleIDs(tr, edge_id) ==
    Filter(tr.order, { v \in Vehicles : tr.vehicles[v].status # "absent"
                                         /\ tr.vehicles[v].edge = edge_id })

\* traci.poi.getContextSubscriptionResults(f"poi_{radar.id}"): the vehicles
\* within the subscribed range (radar.detection_radius) of the POI
getContextSubscriptionResults(tr, self) ==
    Filter(tr.order,
           { v \in Vehicles :
               /\ tr.vehicles[v].status = "present"
               /\ (tr.vehicles[v].pos[1] - self.x) * (tr.vehicles[v].pos[1] - self.x)
                    + (tr.vehicles[v].pos[2] - self.y) * (tr.vehicles[v].pos[2] - self.y)
                  <= self.detection_radius * self.detection_radius })

\* get_nearby_vehicles giving up at the first edge whose listing raises
get_nearby_vehicles_abort(self, tr) ==
    IF \E k \in DOMAIN self.nearby_edges : self.nearby_edges[k] \in tr.edge_fail
    THEN {}
    ELSE UNION { Range(getLastStepVehicleIDs(tr, self.nearby_edges[k])) :
                   k \in DOMAIN self.nearby_edges }

\* SpeedRadar.get_nearby_vehicles: the set of vehicles on the nearby edges;
\* an edge whose listing raises (tr.edge_fail) is passed over
get_nearby_vehicles(self, tr) ==
    UNION { Range(getLastStepVehicleIDs(tr, self.nearby_edges[k])) :
              k \in { n \in DOMAIN self.nearby_edges :
                        self.nearby_edges[n] \notin tr.edge_fail } }

\* the violation dict built by check_vehicle and _check_with_subscriptions
Violation(self, vehicle_id, current_step, position, speed) ==
    [ radar_id |-> self.id,
      vehicle_id |-> vehicle_id,
      timestamp |-> current_step,
      location |-> position,
      speed_limit_ms |-> self.speed_limit,
      actual_speed_ms |-> speed ]

\* dict[key] = value
DictSet(d, key, value) ==
    [ k \in DOMAIN d \cup {key} |-> IF k = key THEN value ELSE d[k] ]

\* InCooldown with the window one step long
InCooldown_long(self, vehicle_id, current_step) ==
    /\ vehicle_id \in DOMAIN self.violation_cooldowns
    /\ current_step - self.violation_cooldowns[vehicle_id] <= self.cooldown_steps

\* InCooldown with the window one step short
InCooldown_short(self, vehicle_id, current_step) ==
    /\ vehicle_id \in DOMAIN self.violation_cooldowns
    /\ current_step - self.violation_cooldowns[vehicle_id] < self.cooldown_steps - 1

\* "vehicle_id in violation_cooldowns and current_step - entry < cooldown_steps"
InCooldown(self, vehicle_id, current_step) ==
    /\ vehicle_id \in DOMAIN self.violation_cooldowns
    /\ current_step - self.violation_cooldowns[vehicle_id] < self.cooldown_steps

\* check_vehicle counting a check only after the cooldown test
check_vehicle_late_count(self, tr, vehicle_id, current_step) ==
    LET counted == [self EXCEPT !.total_checks = @ + 1]
        veh == tr.vehicles[vehicle_id]
    IN  IF InCooldown(self, vehicle_id, current_step)
        THEN [self |-> self, violation |-> None]
        ELSE IF \/ veh.status # "present"
                \/ ~ is_in_detection_zone(self, veh.pos[1], veh.pos[2])
                \/ ~ (veh.speed > self.speed_limit)
        THEN [self |-> counted, violation |-> None]
        ELSE [ self |-> [counted EXCEPT
                           !.violation_cooldowns = DictSet(@, vehicle_id, current_step),
                           !.total_violations = @ + 1],
               violation |-> Violation(self, vehicle_id, current_step, veh.pos, veh.speed) ]

\* check_vehicle with "current_speed >= self.speed_limit"
check_vehicle_ge(self, tr, vehicle_id, current_step) ==
    LET counted == [self EXCEPT !.total_checks = @ + 1]
        veh == tr.vehicles[vehicle_id]
    IN  IF InCooldown(self, vehicle_id, current_step)
           \/ veh.status # "present"
           \/ ~ is_in_detection_zone(self, veh.pos[1], veh.pos[2])
           \/ ~ (veh.speed >= self.speed_limit)
        THEN [self |-> counted, violation |-> None]
        ELSE [ self |-> [counted EXCEPT
                           !.violation_cooldowns = DictSet(@, vehicle_id, current_step),
                           !.total_violations = @ + 1],
               violation |-> Violation(self, vehicle_id, current_step, veh.pos, veh.speed) ]

\* check_vehicle counting a violation also for a suppressed speeding vehicle
check_vehicle_recount(self, tr, vehicle_id, current_step) ==
    LET counted == [self EXCEPT !.total_checks = @ + 1]
        veh == tr.vehicles[vehicle_id]
        speeding == /\ veh.status = "present"
                    /\ is_in_detection_zone(self, veh.pos[1], veh.pos[2])
                    /\ veh.speed > self.speed_limit
    IN  IF ~ speeding THEN [self |-> counted, violation |-> None]
        ELSE IF InCooldown(self, vehicle_id, current_step)
        THEN [self |-> [counted EXCEPT !.total_violations = @ + 1], violation |-> None]
        ELSE [ self |-> [counted EXCEPT
                           !.violation_cooldowns = DictSet(@, vehicle_id, current_step),
                           !.total_violations = @ + 1],
               violation |-> Violation(self, vehicle_id, current_step, veh.pos, veh.speed) ]

\* check_vehicle writing the entry of a suppressed speeding vehicle again
check_vehicle_refresh(self, tr, vehicle_id, current_step) ==
    LET counted == [self EXCEPT !.total_checks = @ + 1]
        veh == tr.vehicles[vehicle_id]
        speeding == /\ veh.status = "present"
                    /\ is_in_detection_zone(self, veh.pos[1], veh.pos[2])
                    /\ veh.speed > self.speed_limit
    IN  IF ~ speeding THEN [self |-> counted, violation |-> None]
        ELSE IF InCooldown(self, vehicle_id, current_step)
        THEN [ self |-> [counted EXCEPT
                           !.violation_cooldowns = DictSet(@, vehicle_id, current_step)],
               violation |-> None ]
        ELSE [ self |-> [counted EXCEPT
                           !.violation_cooldowns = DictSet(@, vehicle_id, current_step),
                           !.total_violations = @ + 1],
               violation |-> Violation(self, vehicle_id, current_step, veh.pos, veh.speed) ]

\* SpeedRadar.check_vehicle: the radar after the call and the value returned
check_vehicle(self, tr, vehicle_id, current_step) ==
    LET counted == [self EXCEPT !.total_checks = @ + 1]
        veh == tr.vehicles[vehicle_id]
    IN  IF InCooldown(self, vehicle_id, current_step)
        THEN [self |-> counted, violation |-> None]
        ELSE IF veh.status # "present"        \* getPosition raises: except: pass
        THEN [self |-> counted, violation |-> None]
        ELSE IF ~ is_in_detection_zone(self, veh.pos[1], veh.pos[2])
        THEN [self |-> counted, violation |-> None]
        ELSE IF veh.speed > self.speed_limit
        THEN [ self |-> [counted EXCEPT
                           !.violation_cooldowns = DictSet(@, vehicle_id, current_step),
                           !.total_violations = @ + 1],
               violation |-> Violation(self, vehicle_id, current_step, veh.pos, veh.speed) ]
        ELSE [self |-> counted, violation |-> None]

\* cleanup_old_cooldowns with "current_step - step > self.cooldown_steps"
cleanup_old_cooldowns_gt(self, current_step) ==
    LET expired == { vid \in DOMAIN self.violation_cooldowns :
                       current_step - self.violation_cooldowns[vid] > self.cooldown_steps }
    IN  [self EXCEPT !.violation_cooldowns =
            [ vid \in DOMAIN @ \ expired |-> @[vid] ]]

\* cleanup_old_cooldowns emptying the table
cleanup_old_cooldowns_all(self, current_step) ==
    [self EXCEPT !.violation_cooldowns = EmptyDict]

\* cleanup_old_cooldowns setting the expired entries to the current step
cleanup_old_cooldowns_touch(self, current_step) ==
    LET expired == { vid \in DOMAIN self.violation_cooldowns :
                       current_step - self.violation_cooldowns[vid] >= self.cooldown_steps }
    IN  [self EXCEPT !.violation_cooldowns =
            [ vid \in DOMAIN @ |-> IF vid \in expired THEN current_step ELSE @[vid] ]]

\* SpeedRadar.cleanup_old_cooldowns
cleanup_old_cooldowns(self, current_step) ==
    LET expired == { vid \in DOMAIN self.violation_cooldowns :
                       current_step - self.violation_cooldowns[vid] >= self.cooldown_steps }
    IN  [self EXCEPT !.violation_cooldowns =
            [ vid \in DOMAIN @ \ expired |-> @[vid] ]]

----------------------------------------------------------------------------
(* RadarManager *)

\* the backend addresses tried by _log_violation, in order
PRIMARY_URL == "http://localhost:5000/api/violations"
SECONDARY_URL == "http://backend:5000/api/violations"

\* what one requests.post(..., timeout=1) does: a response comes back, or
\* requests.exceptions.ConnectionError (connect timeouts included), or another
\* exception (a read timeout)
PostOutcomes == {"ok", "ConnectionError", "Timeout"}

\* what the environment does to the calls of one tick: the append to the log
\* file, the post to the primary address, the post to the secondary address
\* (named only where the call is made)
OkEnv == [disk |-> "ok", primary |-> "ok", secondary |-> "ok"]

Environments ==
    { env \in [ disk : {"ok", "OSError"}, primary : PostOutcomes, secondary : PostOutcomes ] :
        /\ env.disk # "ok" => env.primary = "ok"
        /\ env.primary # "ConnectionError" => env.secondary = "ok" }

\* the environments in which the backend answers every post
DiskEnvironments == { env \in Environments : env.primary = "ok" }

\* SendToBackend trying the second address after any exception
SendToBackend_retry_any(requests, violation, env) ==
    LET first == Append(requests,
                        [url |-> PRIMARY_URL, json |-> violation, outcome |-> env.primary])
    IN  IF env.primary # "ok"
        THEN Append(first,
                    [url |-> SECONDARY_URL, json |-> violation,
                     outcome |-> IF env.primary = "ConnectionError"
                                 THEN env.secondary ELSE "ConnectionError"])
        ELSE first

\* SendToBackend without the second address
SendToBackend_noretry(requests, violation, env) ==
    Append(requests, [url |-> PRIMARY_URL, json |-> violation, outcome |-> env.primary])

\* the "Send to backend" block of _log_violation: the secondary address is
\* tried only on ConnectionError; every exception ends in the outer except
SendToBackend(requests, violation, env) ==
    LET first == Append(requests,
                        [url |-> PRIMARY_URL, json |-> violation, outcome |-> env.primary])
    IN  IF env.primary = "ConnectionError"
        THEN Append(first,
                    [url |-> SECONDARY_URL, json |-> violation, outcome |-> env.secondary])
        ELSE first

\* _log_violation without the outer "except Exception" of the backend block
log_violation_raise(m, violation, env) ==
    LET logged == [m EXCEPT !.violations_log = Append(@, violation)]
    IN  IF env.disk # "ok"
        THEN [logged EXCEPT !.raised = TRUE]
        ELSE [logged EXCEPT !.log_file = Append(@, violation),
                            !.http = SendToBackend(@, violation, env),
                            !.raised = env.primary = "Timeout"
                                       \/ (env.primary = "ConnectionError"
                                           /\ env.secondary # "ok")]

\* _log_violation with the backend block before the write to the file
log_violation_send_first(m, violation, env) ==
    LET sent == [m EXCEPT !.violations_log = Append(@, violation),
                          !.http = SendToBackend(@, violation, env)]
    IN  IF env.disk # "ok"
        THEN [sent EXCEPT !.raised = TRUE]
        ELSE [sent EXCEPT !.log_file = Append(@, violation)]

\* RadarManager._log_violation on the manager state m; m.raised: an exception
\* is propagating (the open/write of the log file is outside any try)
log_violation(m, violation, env) ==
    LET logged == [m EXCEPT !.violations_log = Append(@, violation)]
    IN  IF env.disk # "ok"
        THEN [logged EXCEPT !.raised = TRUE]
        ELSE [logged EXCEPT !.log_file = Append(@, violation),
                            !.http = SendToBackend(@, violation, env)]

\* CheckAndLog with one cooldown table shared by all radars
CheckAndLog_shared(m, tr, i, vehicle_id, current_step, env) ==
    LET res == check_vehicle(m.radars[i], tr, vehicle_id, current_step)
        checked == [m EXCEPT !.radars =
                       [ j \in DOMAIN @ |->
                           IF j = i THEN res.self
                           ELSE [@[j] EXCEPT !.violation_cooldowns
                                                 = res.self.violation_cooldowns] ]]
    IN  IF res.violation = None THEN checked
        ELSE log_violation(checked, res.violation, env)

\* "violation = radar.check_vehicle(...); if violation: self._log_violation(violation)"
\* for radar number i
CheckAndLog(m, tr, i, vehicle_id, current_step, env) ==
    LET res == check_vehicle(m.radars[i], tr, vehicle_id, current_step)
        checked == [m EXCEPT !.radars[i] = res.self]
    IN  IF res.violation = None THEN checked
        ELSE log_violation(checked, res.violation, env)

\* a loop over (vehicle, radar number) pairs, left when an exception propagates
RECURSIVE CheckPairs(_, _, _, _, _)
CheckPairs(m, tr, pairs, current_step, env) ==
    IF pairs = << >> \/ m.raised THEN m
    ELSE CheckPairs(CheckAndLog(m, tr, Head(pairs)[2], Head(pairs)[1], current_step, env),
                    tr, Tail(pairs), current_step, env)

\* <<v, i>> for every v of vehicle_ids, in order
PairsOfRadar(vehicle_ids, i) ==
    [ k \in DOMAIN vehicle_ids |-> <<vehicle_ids[k], i>> ]

RECURSIVE Flatten(_)
Flatten(ss) == IF ss = << >> THEN << >> ELSE Head(ss) \o Flatten(Tail(ss))

\* RadarManager._check_with_full_scan: "for vehicle_id: for radar"
check_with_full_scan(m, tr, current_step, env) ==
    LET vehicle_ids == getIDList(tr)
    IN  IF vehicle_ids = << >> THEN m
        ELSE CheckPairs(m, tr,
                 Flatten([ k \in DOMAIN vehicle_ids |->
                             [ i \in DOMAIN m.radars |-> <<vehicle_ids[k], i>> ] ]),
                 current_step, env)

\* RadarManager._check_radar_full_scan
check_radar_full_scan(m, tr, i, current_step, env) ==
    CheckPairs(m, tr, PairsOfRadar(getIDList(tr), i), current_step, env)

\* "for radar in self.radars: radar.cleanup_old_cooldowns(current_step)"
CleanupAll(m, current_step) ==
    [m EXCEPT !.radars = [ i \in DOMAIN @ |-> cleanup_old_cooldowns(@[i], current_step) ]]

\* RadarManager._check_with_edge_based: "for radar: for vehicle_id in
\* nearby_vehicles" (a set, iterated in the snapshot's order), then its own cleanup
check_with_edge_based(m, tr, current_step, env) ==
    LET checked ==
            CheckPairs(m, tr,
                Flatten([ i \in DOMAIN m.radars |->
                            PairsOfRadar(Filter(tr.order, get_nearby_vehicles(m.radars[i], tr)), i) ]),
                current_step, env)
    IN  IF checked.raised THEN checked
        ELSE IF current_step % CLEANUP_INTERVAL = 0 THEN CleanupAll(checked, current_step)
        ELSE checked

\* SubscriptionVehicle writing the cooldown entry and the count after
\* _log_violation has returned
SubscriptionVehicle_late_entry(m, tr, i, vehicle_id, current_step, env) ==
    LET radar == m.radars[i]
        vehicle_data == tr.vehicles[vehicle_id]
    IN  IF InCooldown(radar, vehicle_id, current_step) THEN m
        ELSE IF ~ is_in_detection_zone(radar, vehicle_data.pos[1], vehicle_data.pos[2]) THEN m
        ELSE IF vehicle_data.speed > radar.speed_limit
        THEN LET logged == log_violation(m,
                               Violation(radar, vehicle_id, current_step,
                                         vehicle_data.pos, vehicle_data.speed), env)
             IN  IF logged.raised THEN logged
                 ELSE [logged EXCEPT
                         !.radars[i].violation_cooldowns = DictSet(@, vehicle_id, current_step),
                         !.radars[i].total_violations = @ + 1]
        ELSE m

\* the body of the loop over the subscription results of radar number i
SubscriptionVehicle(m, tr, i, vehicle_id, current_step, env) ==
    LET radar == m.radars[i]
        vehicle_data == tr.vehicles[vehicle_id]
    IN  IF InCooldown(radar, vehicle_id, current_step) THEN m
        ELSE IF ~ is_in_detection_zone(radar, vehicle_data.pos[1], vehicle_data.pos[2]) THEN m
        ELSE IF vehicle_data.speed > radar.speed_limit
        THEN log_violation(
                 [m EXCEPT !.radars[i].violation_cooldowns = DictSet(@, vehicle_id, current_step),
                           !.radars[i].total_violations = @ + 1],
                 Violation(radar, vehicle_id, current_step, vehicle_data.pos, vehicle_data.speed),
                 env)
        ELSE m

RECURSIVE SubscriptionLoop(_, _, _, _, _, _)
SubscriptionLoop(m, tr, i, vehicle_ids, current_step, env) ==
    IF vehicle_ids = << >> \/ m.raised THEN m
    ELSE SubscriptionLoop(SubscriptionVehicle(m, tr, i, Head(vehicle_ids), current_step, env),
                          tr, i, Tail(vehicle_ids), current_step, env)

\* SubscriptionRadar that leaves the radar unchecked when its query fails
SubscriptionRadar_skip(m, tr, i, current_step, env) ==
    IF m.radars[i].id \in tr.sub_fail
    THEN m
    ELSE SubscriptionLoop(m, tr, i, getContextSubscriptionResults(tr, m.radars[i]),
                          current_step, env)

\* the try/except of _check_with_subscriptions for radar number i: whatever is
\* raised inside the try (by the subscription query or by _log_violation) is
\* caught and the radar is checked by _check_radar_full_scan
SubscriptionRadar(m, tr, i, current_step, env) ==
    IF m.radars[i].id \in tr.sub_fail
    THEN check_radar_full_scan(m, tr, i, current_step, env)
    ELSE LET tried == SubscriptionLoop(m, tr, i,
                          getContextSubscriptionResults(tr, m.radars[i]), current_step, env)
         IN  IF tried.raised
             THEN check_radar_full_scan([tried EXCEPT !.raised = FALSE], tr, i, current_step, env)
             ELSE tried

\* the "[WARN] Subscription failed for {radar.id}, using fallback" lines that
\* _check_with_subscriptions prints from radar number i on: one each time
\* the except branch is entered
RECURSIVE subscription_warnings(_, _, _, _, _)
subscription_warnings(m, tr, i, current_step, env) ==
    IF i > Len(m.radars) \/ m.raised THEN << >>
    ELSE LET caught ==
                 \/ m.radars[i].id \in tr.sub_fail
                 \/ SubscriptionLoop(m, tr, i,
                        getContextSubscriptionResults(tr, m.radars[i]),
                        current_step, env).raised
         IN  (IF caught THEN << [radar_id |-> m.radars[i].id, step |-> current_step] >>
              ELSE << >>)
             \o subscription_warnings(SubscriptionRadar(m, tr, i, current_step, env),
                                      tr, i + 1, current_step, env)

\* RadarManager._check_with_subscriptions: "for radar in self.radars"
RECURSIVE check_with_subscriptions(_, _, _, _, _)
check_with_subscriptions(m, tr, i, current_step, env) ==
    IF i > Len(m.radars) \/ m.raised THEN m
    ELSE check_with_subscriptions(SubscriptionRadar(m, tr, i, current_step, env),
                                  tr, i + 1, current_step, env)

\* check_all_vehicles cleaning up only when vehicles are listed
check_all_vehicles_idle(m, tr, current_step, env) ==
    LET checked ==
            IF m.detection_method = METHOD_EDGE_BASED
            THEN check_with_edge_based(m, tr, current_step, env)
            ELSE IF m.detection_method = METHOD_CONTEXT_SUB
            THEN check_with_subscriptions(m, tr, 1, current_step, env)
            ELSE check_with_full_scan(m, tr, current_step, env)
    IN  IF checked.raised THEN checked
        ELSE IF current_step % CLEANUP_INTERVAL = 0 /\ getIDList(tr) # << >>
        THEN CleanupAll(checked, current_step)
        ELSE checked

\* RadarManager.check_all_vehicles
check_all_vehicles(m, tr, current_step, env) ==
    LET checked ==
            IF m.detection_method = METHOD_EDGE_BASED
            THEN check_with_edge_based(m, tr, current_step, env)
            ELSE IF m.detection_method = METHOD_CONTEXT_SUB
            THEN check_with_subscriptions(m, tr, 1, current_step, env)
            ELSE check_with_full_scan(m, tr, current_step, env)
    IN  IF checked.raised THEN checked
        ELSE IF current_step % CLEANUP_INTERVAL = 0 THEN CleanupAll(checked, current_step)
        ELSE checked

\* RadarManager.add_radars_to_map: the detection method's one-time set-up
add_radars_to_map(m) ==
    IF m.detection_method = METHOD_EDGE_BASED
    THEN [m EXCEPT !.radars = [ i \in DOMAIN @ |-> find_nearby_edges(@[i]) ],
                   !.initialized = TRUE]
    ELSE [m EXCEPT !.initialized = TRUE]

----------------------------------------------------------------------------------------------------------------------------------------
(* Inputs: the steps and the telemetry snapshots the calls are given       *)

\* the current_step values offered to the calls: one cooldown window after
\* step 0 and around the cleanup at step 500
StepInputs ==
    { 0, cooldown_steps - 1, cooldown_steps,
      CLEANUP_INTERVAL - cooldown_steps, CLEANUP_INTERVAL - cooldown_steps + 1,
      CLEANUP_INTERVAL }

Present(edge, pos, speed) ==
    [status |-> "present", edge |-> edge, pos |-> pos, speed |-> speed]

\* listed on its edge, but getPosition raises
Gone(edge) == [status |-> "gone", edge |-> edge, pos |-> <<0, 0>>, speed |-> 0]

\* what the first vehicle does in a snapshot: it is absent; it is listed but
\* gone; it is inside both zones at <<1, 0>> with speed 2, above R1's limit and
\* at R2's; or it is inside both zones at <<1, 1>> with speed 3, on the long
\* edge whose end points are outside the zones
VehicleStates ==
    { Absent, Gone("e_near"),
      Present("e_near", <<1, 0>>, 2), Present("e_long", <<1, 1>>, 3) }

\* the second vehicle is absent or inside both zones above both limits
VehicleStates2 ==
    { Absent, Present("e_near", <<1, 0>>, 3) }

\* the orders in which a set of vehicles is iterated
VehicleOrders == { <<"v1", "v2">>, <<"v2", "v1">> }

\* the radars whose subscription query raises in a snapshot
SubFails == { {}, {"R1"} }

AllSnapshots ==
    [ vehicles : { [v \in Vehicles |-> IF v = "v1" THEN s1 ELSE s2] :
                     s1 \in VehicleStates, s2 \in VehicleStates2 },
      order : VehicleOrders,
      sub_fail : SubFails,
      edge_fail : { {} } ]

\* the snapshots given to check_all_vehicles: a subscription query can fail
\* only where subscriptions are used, and the iteration order of the set of
\* nearby vehicles is open only where that set is used and has two members
Snapshots(method) ==
    { tr \in AllSnapshots :
        /\ method # METHOD_CONTEXT_SUB => tr.sub_fail = {}
        /\ ( method # METHOD_EDGE_BASED
             \/ \E v \in Vehicles : tr.vehicles[v].edge # "e_near" )
              => tr.order = <<"v1", "v2">> }

----------------------------------------------------------------------------------------------------------------------------------------
(* The state machine *)

\* RadarManager.__init__ and load_radars
RadarManager(method) ==
    [ detection_method |-> method,
      initialized |-> FALSE,
      radars |-> load_radars,
      violations_log |-> << >>,
      log_file |-> << >>,
      http |-> << >>,
      raised |-> FALSE ]

\* simulation.py up to load_radars, for each detection method
Init ==
    /\ manager \in { RadarManager(method) : method \in Methods }
    /\ step = -1
    /\ call = NoCall
    /\ ret = None
    /\ nticks = 0
    /\ driver = NoDriver
    /\ shadow = NoShadow

\* simulation.py: radar_manager.add_radars_to_map(traci)
AddRadarsToMap ==
    /\ ~ initialized
    /\ manager' = add_radars_to_map(manager)
    /\ UNCHANGED <<step, call, ret, nticks, driver, shadow>>

\* simulation.py: radar_manager.check_all_vehicles(traci, step), with a later
\* step than the last call's, in one of the environments envs
TickIn(envs, steps, max_ticks) ==
    /\ initialized
    /\ ~ fatal
    /\ nticks < max_ticks
    /\ Len(violations_log) < MaxLog
    /\ \E current_step \in steps, tr \in Snapshots(detection_method), env \in envs :
        /\ current_step > step
        /\ manager' = check_all_vehicles(manager, tr, current_step, env)
        /\ step' = current_step
        /\ nticks' = nticks + 1
    /\ UNCHANGED <<call, ret, driver, shadow>>

\* a tick in which the backend answers (the posts do not feed back into the
\* manager: their outcomes are only recorded in http)
Tick == TickIn(DiskEnvironments, StepInputs, MaxTicks)

\* the steps of the ticks in which the backend may fail as well: the first,
\* one cooldown window later, the first periodic cleanup
NetSteps == {0, cooldown_steps, CLEANUP_INTERVAL}

\* a tick in which the backend may fail as well
TickNet == TickIn(Environments, NetSteps, MaxNetTicks)

----------------------------------------------------------------------------
(* Direct calls of the SpeedRadar methods, as the manager's loops make them *)

\* the current_step values of the direct calls: steps 0 and 1, and one
\* cooldown window after each
ZoneSteps ==
    { 0, 1, cooldown_steps - 1, cooldown_steps, cooldown_steps + 1 }

\* where the vehicle of a direct call is:
\*   <<1, 0>>   inside both zones
\*   <<0, 2>>   on R1's circle; inside R2's bounding box, outside its circle
\*   <<-2, 1>>  inside R1's bounding box, outside its circle; outside R2's box
\*   <<3, 0>>   outside R1's bounding box; inside R2
ZonePositions ==
    { <<1, 0>>, <<0, 2>>, <<-2, 1>>, <<3, 0>> }

\* at R1's limit, at R2's limit and above R1's, above both
ZoneSpeeds == {1, 2, 3}

ZoneVehicleStates ==
    { Gone("e_near") } \cup
    { Present("e_near", pos, speed) : pos \in ZonePositions, speed \in ZoneSpeeds }

\* the snapshot in which vehicle_id is in state veh
SnapshotOf(vehicle_id, veh) ==
    [ vehicles |-> [v \in Vehicles |-> IF v = vehicle_id THEN veh ELSE Absent],
      order |-> <<"v1", "v2">>, sub_fail |-> {}, edge_fail |-> {} ]

\* radar.check_vehicle(traci, vehicle_id, current_step) on radar number i
CheckVehicle ==
    /\ nticks < MaxCalls
    /\ \E i \in DOMAIN radars, vehicle_id \in Vehicles, veh \in ZoneVehicleStates,
          current_step \in ZoneSteps :
        /\ current_step >= step
        /\ call' = [ op |-> "check_vehicle", radar |-> i, vehicle_id |-> vehicle_id,
                     vehicle |-> veh, current_step |-> current_step,
                     result |-> check_vehicle(radars[i], SnapshotOf(vehicle_id, veh),
                                              vehicle_id, current_step) ]
        /\ manager' = [manager EXCEPT !.radars[i] = call'.result.self]
        /\ ret' = call'.result.violation
        /\ step' = current_step
        /\ nticks' = nticks + 1
    /\ UNCHANGED <<driver, shadow>>

\* radar.cleanup_old_cooldowns(current_step) on radar number i
CleanupOldCooldowns ==
    /\ nticks < MaxCalls
    /\ \E i \in DOMAIN radars, current_step \in ZoneSteps :
        /\ current_step >= step
        /\ call' = [ op |-> "cleanup_old_cooldowns", radar |-> i,
                     current_step |-> current_step ]
        /\ manager' = [manager EXCEPT !.radars[i] = cleanup_old_cooldowns(@, current_step)]
        /\ ret' = None
        /\ step' = current_step
        /\ nticks' = nticks + 1
    /\ UNCHANGED <<driver, shadow>>

NextZone == CheckVehicle \/ CleanupOldCooldowns

\* the radars of a full-scan manager, called directly
InitZone ==
    /\ manager = RadarManager(METHOD_FULL_SCAN)
    /\ step = -1
    /\ call = NoCall
    /\ ret = None
    /\ nticks = 0
    /\ driver = NoDriver
    /\ shadow = NoShadow

SpecZone == InitZone /\ [][NextZone]_vars

Next == AddRadarsToMap \/ Tick

Spec == Init /\ [][Next]_vars

NextNet == AddRadarsToMap \/ TickNet

SpecNet == Init /\ [][NextNet]_vars

----------------------------------------------------------------------------
(* The script simulation.py *)

\* the loop bound of "while step < 3600", shortened
RunSteps == 3

\* what opening and reading radars_config.json gives: the two zones, no
\* file, a file that is not JSON, the empty list, an entry without its keys
ConfigFiles == {"ok", "FileNotFoundError", "JSONDecodeError", "empty", "KeyError"}

\* str(uuid.uuid4())
SimulationIds == {"run-a", "run-b"}

\* the addresses of the start and end notifications
NotifyUrl(host, signal) == "http://" \o host \o ":5000/api/simulation/" \o signal

\* the outcomes of the two posts of a notification; the second is made only
\* when the first raised
NotifyOutcomes ==
    { o \in [primary : {"ok", "error"}, secondary : {"ok", "error"}] :
        o.primary = "ok" => o.secondary = "ok" }

\* Notify posting to both addresses whatever the first post did
Notify_both(posts, signal, simulation_id, o) ==
    posts \o << [ url |-> NotifyUrl("localhost", signal),
                  json |-> [simulation_id |-> simulation_id], outcome |-> o.primary ],
                [ url |-> NotifyUrl("backend", signal),
                  json |-> [simulation_id |-> simulation_id], outcome |-> o.secondary ] >>

\* "try: post(localhost) except: try: post(backend) except: print(...)"
Notify(posts, signal, simulation_id, o) ==
    LET first == Append(posts, [ url |-> NotifyUrl("localhost", signal),
                                 json |-> [simulation_id |-> simulation_id],
                                 outcome |-> o.primary ])
    IN  IF o.primary # "ok"
        THEN Append(first, [ url |-> NotifyUrl("backend", signal),
                             json |-> [simulation_id |-> simulation_id],
                             outcome |-> o.secondary ])
        ELSE first

\* simulation.py lines 10-14: the id, the manager with method='full'
InitRun ==
    /\ manager = [RadarManager(METHOD_FULL_SCAN) EXCEPT !.radars = << >>]
    /\ step = -1
    /\ call = NoCall
    /\ ret = None
    /\ nticks = 0
    /\ driver \in [ pc : {"load_radars"}, config : ConfigFiles,
                    simulation_id : SimulationIds, loaded : {None},
                    step : {0}, advances : {0}, posts : {<< >>} ]
    /\ shadow = NoShadow

\* radar_manager.load_radars(): its return value is not looked at; an
\* exception other than the two it catches ends the script
RunLoadRadars ==
    /\ driver.pc = "load_radars"
    /\ manager' = [manager EXCEPT !.radars =
                      IF driver.config = "ok" THEN load_radars ELSE << >>]
    /\ driver' = [driver EXCEPT
                    !.loaded = IF driver.config = "KeyError" THEN None
                               ELSE driver.config \in {"ok", "empty"},
                    !.pc = IF driver.config = "KeyError" THEN "crashed"
                           ELSE "notify_start"]
    /\ UNCHANGED <<step, call, ret, nticks, shadow>>

\* "Notify backend of start"
RunNotifyStart ==
    /\ driver.pc = "notify_start"
    /\ \E o \in NotifyOutcomes :
        driver' = [driver EXCEPT !.posts = Notify(@, "start", driver.simulation_id, o),
                                 !.pc = "add_radars"]
    /\ UNCHANGED <<manager, step, call, ret, nticks, shadow>>

\* traci.start, radar_manager.add_radars_to_map(traci), step = 0
RunAddRadars ==
    /\ driver.pc = "add_radars"
    /\ manager' = add_radars_to_map(manager)
    /\ driver' = [driver EXCEPT !.step = 0, !.pc = "loop"]
    /\ UNCHANGED <<step, call, ret, nticks, shadow>>

\* "while step < 3600: traci.simulationStep()": the simulation advances
RunAdvance ==
    /\ driver.pc = "loop"
    /\ driver.step < RunSteps
    /\ driver' = [driver EXCEPT !.advances = @ + 1, !.pc = "check"]
    /\ UNCHANGED <<manager, step, call, ret, nticks, shadow>>

\* RunTick going back to the loop test without "step += 1"
RunTick_repeat ==
    /\ driver.pc = "check"
    /\ \E tr \in Snapshots(detection_method), env \in DiskEnvironments :
        /\ manager' = check_all_vehicles(manager, tr, driver.step, env)
        /\ driver' = IF manager'.raised
                     THEN [driver EXCEPT !.pc = "crashed"]
                     ELSE [driver EXCEPT !.pc = "loop"]
    /\ step' = driver.step
    /\ nticks' = nticks + 1
    /\ UNCHANGED <<call, ret, shadow>>

\* the rest of the iteration: check_all_vehicles(traci, step); step += 1.
\* An exception that leaves check_all_vehicles ends the script.
RunTick ==
    /\ driver.pc = "check"
    /\ \E tr \in Snapshots(detection_method), env \in DiskEnvironments :
        /\ manager' = check_all_vehicles(manager, tr, driver.step, env)
        /\ driver' = IF manager'.raised
                     THEN [driver EXCEPT !.pc = "crashed"]
                     ELSE [driver EXCEPT !.step = @ + 1, !.pc = "loop"]
    /\ step' = driver.step
    /\ nticks' = nticks + 1
    /\ UNCHANGED <<call, ret, shadow>>

\* the loop condition fails: traci.close()
RunLoopExit ==
    /\ driver.pc = "loop"
    /\ ~ (driver.step < RunSteps)
    /\ driver' = [driver EXCEPT !.pc = "notify_end"]
    /\ UNCHANGED <<manager, step, call, ret, nticks, shadow>>

\* "Notify backend of end", print_summary
RunNotifyEnd ==
    /\ driver.pc = "notify_end"
    /\ \E o \in NotifyOutcomes :
        driver' = [driver EXCEPT !.posts = Notify(@, "end", driver.simulation_id, o),
                                 !.pc = "done"]
    /\ UNCHANGED <<manager, step, call, ret, nticks, shadow>>

NextRun ==
    \/ RunLoadRadars
    \/ RunNotifyStart
    \/ RunAddRadars
    \/ RunAdvance
    \/ RunTick
    \/ RunLoopExit
    \/ RunNotifyEnd

SpecRun == InitRun /\ [][NextRun]_vars

\* the script runs on: no statement of it waits for anything but its own calls
SpecRunFair == SpecRun /\ WF_vars(NextRun)

----------------------------------------------------------------------------
(* The engine with other cleanup frequencies, run alongside the manager *)

\* the detection part of check_all_vehicles: the dispatch on the method,
\* without the cleanup of check_all_vehicles and of _check_with_edge_based
check_all_vehicles_never(m, tr, current_step, env) ==
    IF m.detection_method = METHOD_EDGE_BASED
    THEN CheckPairs(m, tr,
             Flatten([ i \in DOMAIN m.radars |->
                         PairsOfRadar(Filter(tr.order, get_nearby_vehicles(m.radars[i], tr)), i) ]),
             current_step, env)
    ELSE IF m.detection_method = METHOD_CONTEXT_SUB
    THEN check_with_subscriptions(m, tr, 1, current_step, env)
    ELSE check_with_full_scan(m, tr, current_step, env)

\* the same followed by the cleanup whatever the step
check_all_vehicles_always(m, tr, current_step, env) ==
    CleanupAll(check_all_vehicles_never(m, tr, current_step, env), current_step)

\* the steps of the calls: a cooldown window after step 0, a window before
\* the periodic cleanup at step 500, and up to a window after it
SweepSteps ==
    { 0, cooldown_steps, CLEANUP_INTERVAL - cooldown_steps, CLEANUP_INTERVAL,
      CLEANUP_INTERVAL + 1, CLEANUP_INTERVAL + cooldown_steps - 1 }

\* the three managers after add_radars_to_map, for each detection method
InitSweep ==
    /\ manager \in { add_radars_to_map(RadarManager(method)) : method \in Methods }
    /\ step = -1
    /\ call = NoCall
    /\ ret = None
    /\ nticks = 0
    /\ driver = NoDriver
    /\ shadow = [never |-> manager, always |-> manager]

\* check_all_vehicles(traci, current_step) on the three managers
TickSweep ==
    /\ nticks < MaxTicks
    /\ Len(violations_log) < MaxLog
    /\ \E current_step \in SweepSteps, tr \in Snapshots(detection_method) :
        /\ current_step > step
        /\ manager' = check_all_vehicles(manager, tr, current_step, OkEnv)
        /\ shadow' = [ never |-> check_all_vehicles_never(shadow.never, tr,
                                                         current_step, OkEnv),
                       always |-> check_all_vehicles_always(shadow.always, tr,
                                                           current_step, OkEnv) ]
        /\ step' = current_step
        /\ nticks' = nticks + 1
    /\ UNCHANGED <<call, ret, driver>>

SpecSweep == InitSweep /\ [][TickSweep]_vars

----------------------------------------------------------------------------
(* Calls during which telemetry queries raise *)

\* the steps of these calls: the first, and the ends of its cooldown window
MissSteps == {0, cooldown_steps - 1, cooldown_steps}

\* the snapshots: v1 is absent, listed on e_near but gone, or on e_near
\* inside both zones above both limits; v2 the same on e_side; under the
\* edge-based method the listing of one edge may raise, under the
\* subscription method the query of R1
MissSnapshots(method) ==
    [ vehicles : { [v \in Vehicles |-> IF v = "v1" THEN s1 ELSE s2] :
                     s1 \in { Absent, Gone("e_near"), Present("e_near", <<1, 0>>, 3) },
                     s2 \in { Absent, Gone("e_side"), Present("e_side", <<1, 0>>, 3) } },
      order : { <<"v1", "v2">> },
      sub_fail : IF method = METHOD_CONTEXT_SUB THEN SubFails ELSE { {} },
      edge_fail : IF method = METHOD_EDGE_BASED
                  THEN { {}, {"e_near"}, {"e_side"} } ELSE { {} } ]

\* the manager after add_radars_to_map, for each detection method
InitMiss ==
    /\ manager \in { add_radars_to_map(RadarManager(method)) : method \in Methods }
    /\ step = -1
    /\ call = NoCall
    /\ ret = None
    /\ nticks = 0
    /\ driver = NoDriver
    /\ shadow = NoShadow

\* check_all_vehicles(traci, current_step) with such a snapshot
TickMiss ==
    /\ nticks < MaxTicks
    /\ \E current_step \in MissSteps, tr \in MissSnapshots(detection_method) :
        /\ current_step > step
        /\ manager' = check_all_vehicles(manager, tr, current_step, OkEnv)
        /\ step' = current_step
        /\ nticks' = nticks + 1
    /\ UNCHANGED <<call, ret, driver, shadow>>

SpecMiss == InitMiss /\ [][TickMiss]_vars

\* sum(r.total_violations for r in self.radars)
RECURSIVE SumViolations(_)
SumViolations(rs) ==
    IF rs = << >> THEN 0 ELSE Head(rs).total_violations + SumViolations(Tail(rs))

\* sum(r.total_checks for r in self.radars)
RECURSIVE SumChecks(_)
SumChecks(rs) ==
    IF rs = << >> THEN 0 ELSE Head(rs).total_checks + SumChecks(Tail(rs))

\* RadarManager.get_statistics; in the dict comprehension a later radar of
\* the same id replaces an earlier one
get_statistics(m) ==
    [ total_radars |-> Len(m.radars),
      total_violations |-> SumViolations(m.radars),
      total_checks |-> SumChecks(m.radars),
      violations_by_radar |->
          [ id \in { m.radars[i].id : i \in DOMAIN m.radars } |->
              LET last == CHOOSE i \in DOMAIN m.radars :
                              /\ m.radars[i].id = id
                              /\ \A j \in DOMAIN m.radars : m.radars[j].id = id => j <= i
              IN  m.radars[last].total_violations ] ]

----------------------------------------------------------------------------
(* Direct calls of find_nearby_edges on zones of other places and sizes *)

\* where a zone is and how wide: over the near edges, beside them, between
\* the long edge's end points, far from every edge
ZoneCenters == { <<x, y>> : x \in {-5, -2, 0, 2, 7, 12}, y \in {0, 4} }
ZoneRadii == {1, 2}

\* two zones of a manager, each at one of the places
ZonePairs ==
    { << SpeedRadar("R1", c1[1], c1[2], 1, r1), SpeedRadar("R2", c2[1], c2[2], 2, r2) >> :
        c1 \in ZoneCenters, c2 \in ZoneCenters, r1 \in ZoneRadii, r2 \in ZoneRadii }

InitEdges ==
    /\ manager \in { [RadarManager(METHOD_EDGE_BASED) EXCEPT !.radars = zs] : zs \in ZonePairs }
    /\ step = -1
    /\ call = NoCall
    /\ ret = None
    /\ nticks = 0
    /\ driver = NoDriver
    /\ shadow = NoShadow

\* radar.find_nearby_edges(traci) on radar number i
FindNearbyEdges ==
    /\ nticks < MaxCalls
    /\ \E i \in DOMAIN radars :
        /\ call' = [ op |-> "find_nearby_edges", radar |-> i,
                     queries |-> topology_queries(radars[i]) ]
        /\ manager' = [manager EXCEPT !.radars[i] = find_nearby_edges(@)]
    /\ ret' = None
    /\ nticks' = nticks + 1
    /\ UNCHANGED <<step, driver, shadow>>

SpecEdges == InitEdges /\ [][FindNearbyEdges]_vars

----------------------------------------------------------------------------
(* Properties *)

\* a call of check_all_vehicles can follow the current state (in either
\* specification)
CanTick ==
    /\ initialized
    /\ ~ fatal
    /\ nticks < MaxTicks
    /\ Len(violations_log) < MaxLog

\* the violations a call appended to the log of manager m0, the manager before
NewViolations(m0, m) ==
    SubSeq(m.violations_log, Len(m0.violations_log) + 1, Len(m.violations_log))

\* their (entity, zone) pairs
ViolationPairs(vs) == { <<vs[k].vehicle_id, vs[k].radar_id>> : k \in DOMAIN vs }

\* C1: EdgeBased and FullScan, run from the same state (nearby edges resolved)
\* on the same snapshot at the same step, log the same (entity, zone) pairs.
C1_EdgeFullSamePairs ==
    (CanTick /\ detection_method = METHOD_EDGE_BASED) =>
        \A current_step \in StepInputs, tr \in Snapshots(METHOD_EDGE_BASED) :
            current_step > step =>
                ViolationPairs(NewViolations(manager,
                    check_all_vehicles(manager, tr, current_step, OkEnv)))
                = ViolationPairs(NewViolations(manager,
                    check_all_vehicles([manager EXCEPT !.detection_method = METHOD_FULL_SCAN],
                                       tr, current_step, OkEnv)))

\* C2: every logged violation has a speed above the limit, and no earlier
\* violation of the same zone and entity lies less than one cooldown window
\* before it.
C2_ViolationInvariant ==
    \A k \in DOMAIN violations_log :
        /\ violations_log[k].actual_speed_ms > violations_log[k].speed_limit_ms
        /\ \A j \in 1 .. (k - 1) :
             ( violations_log[j].radar_id = violations_log[k].radar_id
               /\ violations_log[j].vehicle_id = violations_log[k].vehicle_id )
             => ~ ( violations_log[k].timestamp - violations_log[j].timestamp
                      < cooldown_steps )

\* C2 witness: a zone has logged the same entity twice, exactly one window apart
C2_Witness ==
    \E k \in DOMAIN violations_log : \E j \in 1 .. (k - 1) :
        /\ violations_log[j].radar_id = violations_log[k].radar_id
        /\ violations_log[j].vehicle_id = violations_log[k].vehicle_id
        /\ violations_log[k].timestamp - violations_log[j].timestamp = cooldown_steps

\* the spec's containment tests, from the zone's center and radius
InBoundingBox(zone, pos) ==
    /\ zone.x - zone.detection_radius <= pos[1] /\ pos[1] <= zone.x + zone.detection_radius
    /\ zone.y - zone.detection_radius <= pos[2] /\ pos[2] <= zone.y + zone.detection_radius

InDetectionCircle(zone, pos) ==
    (pos[1] - zone.x) * (pos[1] - zone.x) + (pos[2] - zone.y) * (pos[2] - zone.y)
        <= zone.detection_radius * zone.detection_radius

InZone(zone, pos) == InBoundingBox(zone, pos) /\ InDetectionCircle(zone, pos)

\* the step just taken is a direct call of check_vehicle
CheckVehicleStep == nticks' = nticks + 1 /\ call'.op = "check_vehicle"

\* the step just taken is a direct call of cleanup_old_cooldowns
CleanupStep == nticks' = nticks + 1 /\ call'.op = "cleanup_old_cooldowns"

C3_Step ==
    ( CheckVehicleStep
      /\ call'.vehicle_id \in DOMAIN radars[call'.radar].violation_cooldowns ) =>
        LET zone == radars[call'.radar]
            T == zone.violation_cooldowns[call'.vehicle_id]
            t == call'.current_step
            veh == call'.vehicle
        IN  /\ (T + 1 <= t /\ t <= T + cooldown_steps - 1) => ret' = None
            /\ ( t = T + cooldown_steps /\ veh.status = "present"
                 /\ InZone(zone, veh.pos) /\ veh.speed > zone.speed_limit )
               => ( /\ ret' # None
                    /\ ret'.radar_id = zone.id
                    /\ ret'.vehicle_id = call'.vehicle_id
                    /\ ret'.timestamp = t )

\* C3: with a violation of entity E recorded by zone Z at step T, check_vehicle
\* for E on Z returns None at every step T+1 .. T+W-1 whatever E's position
\* and speed, and returns a new violation at step T+W when E is in the zone
\* above the limit.
C3_CooldownWindow == [][C3_Step]_vars

\* C3 witness: a zone checked three times has returned a violation at step W,
\* its second, so the first was at step 0 and the check between returned None
C3_Witness ==
    /\ call.op = "check_vehicle"
    /\ ret # None
    /\ ret.timestamp = cooldown_steps
    /\ radars[call.radar].total_violations = 2
    /\ radars[call.radar].total_checks = 3

\* C4: for a position outside the zone's bounding box, or inside the box but
\* outside the detection circle, check_vehicle returns None whatever the speed
\* and the cooldown state.
C4_OutsideZoneReturnsNone ==
    ( /\ call.op = "check_vehicle"
      /\ call.vehicle.status = "present"
      /\ \/ ~ InBoundingBox(radars[call.radar], call.vehicle.pos)
         \/ ( InBoundingBox(radars[call.radar], call.vehicle.pos)
              /\ ~ InDetectionCircle(radars[call.radar], call.vehicle.pos) ) )
    => ret = None

\* C4 witness: a vehicle above the limit, inside the bounding box and outside
\* the circle, with no cooldown entry, was checked and None returned
C4_Witness ==
    /\ call.op = "check_vehicle"
    /\ call.vehicle.status = "present"
    /\ InBoundingBox(radars[call.radar], call.vehicle.pos)
    /\ ~ InDetectionCircle(radars[call.radar], call.vehicle.pos)
    /\ call.vehicle.speed > radars[call.radar].speed_limit
    /\ call.vehicle_id \notin DOMAIN radars[call.radar].violation_cooldowns
    /\ ret = None

C5_Step ==
    ( CheckVehicleStep
      /\ call'.vehicle.status = "present"
      /\ call'.vehicle.speed <= radars[call'.radar].speed_limit ) =>
        /\ ret' = None
        /\ radars'[call'.radar].violation_cooldowns
             = radars[call'.radar].violation_cooldowns

\* C5: for a speed at or below the zone's limit check_vehicle returns None
\* whatever the position, and the cooldown table is left as it was.
C5_WithinLimitReturnsNone == [][C5_Step]_vars

\* C5 witness: a vehicle inside the zone at exactly the limit, with no
\* cooldown entry, was checked and None returned
C5_Witness ==
    /\ call.op = "check_vehicle"
    /\ call.vehicle.status = "present"
    /\ InZone(radars[call.radar], call.vehicle.pos)
    /\ call.vehicle.speed = radars[call.radar].speed_limit
    /\ call.vehicle_id \notin DOMAIN radars[call.radar].violation_cooldowns
    /\ ret = None

C6_Step ==
    CleanupStep =>
        LET before == radars[call'.radar].violation_cooldowns
            kept == { e \in DOMAIN before :
                        call'.current_step - before[e] < cooldown_steps }
        IN  radars'[call'.radar].violation_cooldowns = [ e \in kept |-> before[e] ]

\* C6: cleanup_old_cooldowns(tick) leaves the table restricted to the entries
\* with tick - entry < window, their steps unchanged.
C6_SweepRemovesExpired == [][C6_Step]_vars

\* C6 witness: after two checks of a zone, both violations, a cleanup has left
\* only the entry of v2, younger than the window: the entry of v1 was removed
C6_Witness ==
    /\ call.op = "cleanup_old_cooldowns"
    /\ radars[call.radar].total_violations = 2
    /\ radars[call.radar].total_checks = 2
    /\ DOMAIN radars[call.radar].violation_cooldowns = {"v2"}
    /\ call.current_step - radars[call.radar].violation_cooldowns["v2"] < cooldown_steps

\* the entries a call appended to a sequence
Appended(before, after) == SubSeq(after, Len(before) + 1, Len(after))

\* how many entries of sequence seq satisfy Test
Count(seq, Test(_)) == Cardinality({ k \in DOMAIN seq : Test(seq[k]) })

\* entity vehicle_id of snapshot tr is inside zone, above its limit, and the
\* zone's table does not suppress it at step t
SpeedingIn(zone, tr, vehicle_id, t) ==
    /\ tr.vehicles[vehicle_id].status = "present"
    /\ InZone(zone, tr.vehicles[vehicle_id].pos)
    /\ tr.vehicles[vehicle_id].speed > zone.speed_limit
    /\ ( vehicle_id \in DOMAIN zone.violation_cooldowns
         => t - zone.violation_cooldowns[vehicle_id] >= cooldown_steps )

\* the events of entity vehicle_id that the call on input (tr, t) logs
\* are two, one of zone 1 and one of zone 2
TwoEvents(tr, vehicle_id, t) ==
    LET new == NewViolations(manager, check_all_vehicles(manager, tr, t, OkEnv))
        IsOf(id) == LET Test(e) == e.vehicle_id = vehicle_id /\ e.radar_id = id
                    IN  Count(new, Test)
        OfVehicle(e) == e.vehicle_id = vehicle_id
    IN  /\ Count(new, OfVehicle) = 2
        /\ IsOf(radars[1].id) = 1
        /\ IsOf(radars[2].id) = 1

\* C7: an entity inside both zones at a speed above both limits, in neither
\* zone's cooldown, gets exactly two violation events from the tick, one per
\* zone.
C7_TwoZonesTwoEvents ==
    CanTick =>
        \A current_step \in StepInputs, tr \in Snapshots(detection_method),
           vehicle_id \in Vehicles :
            ( /\ current_step > step
              /\ SpeedingIn(radars[1], tr, vehicle_id, current_step)
              /\ SpeedingIn(radars[2], tr, vehicle_id, current_step) )
            => TwoEvents(tr, vehicle_id, current_step)

\* the same for the entities the strategy offers to both zones: all of them
\* under FullScan and Subscription, those on an edge that both zones resolved
\* as nearby under EdgeBased
C7_OfferedToBothZones ==
    CanTick =>
        \A current_step \in StepInputs, tr \in Snapshots(detection_method),
           vehicle_id \in Vehicles :
            ( /\ current_step > step
              /\ SpeedingIn(radars[1], tr, vehicle_id, current_step)
              /\ SpeedingIn(radars[2], tr, vehicle_id, current_step)
              /\ detection_method = METHOD_EDGE_BASED
                 => \A i \in {1, 2} : tr.vehicles[vehicle_id].edge \in Range(radars[i].nearby_edges) )
            => TwoEvents(tr, vehicle_id, current_step)

\* a call of check_all_vehicles can follow the current state with any
\* backend outcome
CanTickNet ==
    /\ initialized
    /\ ~ fatal
    /\ nticks < MaxNetTicks
    /\ Len(violations_log) < MaxLog

\* requests for event e to address url that were answered
Delivered(requests, url, e) ==
    LET Test(r) == r.url = url /\ r.json = e /\ r.outcome = "ok"
    IN  Count(requests, Test)

\* lines of event e in the log file
Lines(file, e) ==
    LET Test(line) == line = e
    IN  Count(file, Test)

\* C8: with the primary address unreachable, every event of the tick is
\* once in the log file and delivered once to the secondary address if that
\* is reachable; if it is not, the event is once in the log file, delivered
\* nowhere, and no exception leaves the call.
C8_FallbackDelivery ==
    CanTickNet =>
        \A current_step \in StepInputs, tr \in Snapshots(detection_method),
           env \in Environments :
            ( current_step > step /\ env.disk = "ok" /\ env.primary = "ConnectionError" ) =>
                LET m == check_all_vehicles(manager, tr, current_step, env)
                    new == NewViolations(manager, m)
                    file == Appended(log_file, m.log_file)
                    sent == Appended(http, m.http)
                IN  /\ ~ m.raised
                    /\ \A k \in DOMAIN new :
                        /\ Lines(file, new[k]) = 1
                        /\ Delivered(sent, PRIMARY_URL, new[k]) = 0
                        /\ Delivered(sent, SECONDARY_URL, new[k])
                             = IF env.secondary = "ok" THEN 1 ELSE 0

\* C8 witness: one event went to the secondary address after a connection
\* error of the primary, another found both unreachable and is in the log file
C8_Witness ==
    /\ ~ fatal
    /\ \E k \in DOMAIN http :
        /\ k > 1
        /\ http[k].url = SECONDARY_URL /\ http[k].outcome = "ok"
        /\ http[k - 1].url = PRIMARY_URL /\ http[k - 1].outcome = "ConnectionError"
        /\ http[k - 1].json = http[k].json
        /\ Lines(log_file, http[k].json) = 1
    /\ \E k \in DOMAIN http :
        /\ k > 1
        /\ http[k].url = SECONDARY_URL /\ http[k].outcome = "ConnectionError"
        /\ http[k - 1].url = PRIMARY_URL /\ http[k - 1].outcome = "ConnectionError"
        /\ http[k - 1].json = http[k].json
        /\ Lines(log_file, http[k].json) = 1

\* C9: when the log file cannot be written the call of check_all_vehicles
\* ends with the exception, under each strategy: a manager that goes on holds
\* no violation that is missing from the log file.
C9_LogFailureIsFatal ==
    ~ fatal => \A k \in DOMAIN violations_log : Lines(log_file, violations_log[k]) >= 1

\* C10: whatever the backend's outcome, the call of check_all_vehicles ends
\* without an exception and has checked and logged what it checks and logs
\* when the backend answers.
C10_DeliveryNeverRaises ==
    CanTickNet =>
        \A current_step \in StepInputs, tr \in Snapshots(detection_method),
           env \in Environments :
            ( current_step > step /\ env.disk = "ok" ) =>
                LET m == check_all_vehicles(manager, tr, current_step, env)
                    answered == check_all_vehicles(manager, tr, current_step, OkEnv)
                IN  /\ ~ m.raised
                    /\ m.radars = answered.radars
                    /\ m.violations_log = answered.violations_log
                    /\ m.log_file = answered.log_file

\* C10 witness: after a post that timed out, and after one that found both
\* addresses unreachable, the same tick logged a further event
C10_Witness ==
    /\ ~ fatal
    /\ \E k \in DOMAIN http :
        /\ http[k].outcome = "Timeout"
        /\ \E j \in DOMAIN violations_log : \E n \in (j + 1) .. Len(violations_log) :
            /\ violations_log[j] = http[k].json
            /\ violations_log[n].timestamp = violations_log[j].timestamp
            /\ Lines(log_file, violations_log[n]) = 1
    /\ \E k \in DOMAIN http :
        /\ http[k].url = SECONDARY_URL /\ http[k].outcome = "ConnectionError"
        /\ \E j \in DOMAIN violations_log : \E n \in (j + 1) .. Len(violations_log) :
            /\ violations_log[j] = http[k].json
            /\ violations_log[n].timestamp = violations_log[j].timestamp
            /\ Lines(log_file, violations_log[n]) = 1

\* C11: when radars_config.json is missing, is not JSON or holds no zone, the
\* script never calls check_all_vehicles.
C11_BadConfigIsFatal ==
    driver.config # "ok" => nticks = 0

\* the place of the zone named id in the zone list
ZoneIndex(id) == CHOOSE i \in DOMAIN radars : radars[i].id = id

\* C12: the violations of one tick are logged in zone-list order: no
\* violation of a later zone precedes a violation of an earlier zone of the
\* same tick.
C12_ZoneIterationOrder ==
    \A k \in DOMAIN violations_log : \A j \in 1 .. (k - 1) :
        violations_log[j].timestamp = violations_log[k].timestamp
        => ZoneIndex(violations_log[j].radar_id) <= ZoneIndex(violations_log[k].radar_id)

C13_Step ==
    CheckVehicleStep =>
        \A i \in DOMAIN radars :
            radars'[i].total_checks
                = radars[i].total_checks + (IF i = call'.radar THEN 1 ELSE 0)

\* C13: every call of check_vehicle adds exactly one to the total_checks of
\* the zone it is called on (and nothing to the other's), whatever it returns.
C13_EveryCheckCounted == [][C13_Step]_vars

\* C13 witness: a zone has counted three checks: one returned a violation
\* of the other vehicle at an earlier step, one returned None, and the last
\* found its vehicle gone
C13_Witness ==
    /\ call.op = "check_vehicle"
    /\ call.vehicle.status = "gone"
    /\ ret = None
    /\ radars[call.radar].total_checks = 3
    /\ radars[call.radar].total_violations = 1
    /\ \E v \in DOMAIN radars[call.radar].violation_cooldowns :
        /\ v # call.vehicle_id
        /\ radars[call.radar].violation_cooldowns[v] < call.current_step

\* the vehicles the subscription of radar number i offers, as a set
Offered(tr, i) == Range(getContextSubscriptionResults(tr, radars[i]))

\* C14: for a vehicle its subscription offers to a zone, the subscription
\* path leaves the zone (cooldown table, total_checks, total_violations) and
\* the log as radar.check_vehicle followed by _log_violation does.
C14_SubscriptionSameAsCheckVehicle ==
    (CanTick /\ detection_method = METHOD_CONTEXT_SUB) =>
        \A current_step \in StepInputs, tr \in Snapshots(METHOD_CONTEXT_SUB),
           i \in DOMAIN radars :
            current_step > step =>
                \A vehicle_id \in Offered(tr, i) :
                    LET sub == SubscriptionVehicle(manager, tr, i, vehicle_id,
                                                   current_step, OkEnv)
                        chk == CheckAndLog(manager, tr, i, vehicle_id,
                                           current_step, OkEnv)
                    IN  /\ sub.radars[i].violation_cooldowns
                             = chk.radars[i].violation_cooldowns
                        /\ sub.radars[i].total_violations = chk.radars[i].total_violations
                        /\ sub.radars[i].total_checks = chk.radars[i].total_checks
                        /\ sub.violations_log = chk.violations_log

\* the same without the total_checks counter
C14_SameButTotalChecks ==
    (CanTick /\ detection_method = METHOD_CONTEXT_SUB) =>
        \A current_step \in StepInputs, tr \in Snapshots(METHOD_CONTEXT_SUB),
           i \in DOMAIN radars :
            current_step > step =>
                \A vehicle_id \in Offered(tr, i) :
                    LET sub == SubscriptionVehicle(manager, tr, i, vehicle_id,
                                                   current_step, OkEnv)
                        chk == CheckAndLog(manager, tr, i, vehicle_id,
                                           current_step, OkEnv)
                    IN  /\ sub.radars[i].violation_cooldowns
                             = chk.radars[i].violation_cooldowns
                        /\ sub.radars[i].total_violations = chk.radars[i].total_violations
                        /\ sub.violations_log = chk.violations_log

\* the events of the zone named id among vs
EventsOf(vs, id) == { vs[k] : k \in { n \in DOMAIN vs : vs[n].radar_id = id } }

\* C15: under the subscription method, a zone whose subscription query
\* raises is checked against every listed vehicle (as the full scan checks
\* it), the other zones are served as when no query raises, and the
\* detection method stays what it was; nothing of the failure is kept for
\* the next tick.
C15_FallbackForThatZoneOnly ==
    (CanTick /\ detection_method = METHOD_CONTEXT_SUB) =>
        \A current_step \in StepInputs, tr \in Snapshots(METHOD_CONTEXT_SUB) :
            current_step > step =>
                LET m == check_all_vehicles(manager, tr, current_step, OkEnv)
                    served == check_all_vehicles(manager, [tr EXCEPT !.sub_fail = {}],
                                                 current_step, OkEnv)
                    scanned == check_all_vehicles(
                                   [manager EXCEPT !.detection_method = METHOD_FULL_SCAN],
                                   tr, current_step, OkEnv)
                    new == NewViolations(manager, m)
                IN  /\ m.detection_method = METHOD_CONTEXT_SUB
                    /\ m.initialized
                    /\ \A i \in DOMAIN radars :
                        IF radars[i].id \in tr.sub_fail
                        THEN /\ m.radars[i] = scanned.radars[i]
                             /\ m.radars[i].total_checks
                                  = radars[i].total_checks + Len(getIDList(tr))
                             /\ EventsOf(new, radars[i].id)
                                  = EventsOf(NewViolations(manager, scanned), radars[i].id)
                        ELSE /\ m.radars[i] = served.radars[i]
                             /\ m.radars[i].total_checks = radars[i].total_checks
                             /\ EventsOf(new, radars[i].id)
                                  = EventsOf(NewViolations(manager, served), radars[i].id)

\* C15 witness: R1 was checked by the fallback in one tick (the one listed
\* vehicle counted) and from its subscription in another (a second violation,
\* no further check counted), R2 was served from its subscription only, and
\* a next tick can follow
C15_Witness ==
    /\ detection_method = METHOD_CONTEXT_SUB
    /\ CanTick
    /\ Len(log_file) = Len(violations_log)
    /\ radars[1].total_checks = 1
    /\ radars[1].total_violations = 2
    /\ radars[2].total_checks = 0
    /\ radars[2].total_violations >= 1

\* the posts of the script for the start or the end signal, in order
PostsOf(signal) ==
    LET Test(p) == p.url \in { NotifyUrl("localhost", signal), NotifyUrl("backend", signal) }
    IN  SelectSeq(driver.posts, Test)

\* one signal's posts: the primary address first, the secondary only after a
\* failed primary, at most one answered, all with the run's id
SentOnce(signal) ==
    LET ps == PostsOf(signal)
        Answered(p) == p.outcome = "ok"
    IN  /\ Len(ps) <= 2
        /\ Len(ps) >= 1 => ps[1].url = NotifyUrl("localhost", signal)
        /\ Len(ps) = 2 => ( ps[2].url = NotifyUrl("backend", signal)
                            /\ ps[1].outcome # "ok" )
        /\ Len(SelectSeq(ps, Answered)) <= 1
        /\ \A k \in DOMAIN ps : ps[k].json = [simulation_id |-> driver.simulation_id]

\* C16: the start and the end signal are each posted once (secondary address
\* only after a failed primary, at most one answered post) with the same
\* simulation id, the start before the first tick and the end after the last
\* (none follows it), and no outcome of the posts ends the script.
C16_LifecycleNotifications ==
    /\ SentOnce("start")
    /\ SentOnce("end")
    /\ nticks > 0 => Len(PostsOf("start")) >= 1
    /\ driver.pc \in {"add_radars", "loop", "check", "notify_end", "done"}
         => Len(PostsOf("start")) >= 1
    /\ Len(PostsOf("end")) >= 1 <=> driver.pc = "done"
    /\ driver.pc = "done" => (nticks = RunSteps /\ driver.step = RunSteps)
    /\ driver.pc = "crashed" => (fatal \/ driver.config = "KeyError")

\* C16 witness: a run has ended after all its ticks although both addresses
\* failed for the start signal and for the end signal
C16_Witness ==
    /\ driver.pc = "done"
    /\ nticks = RunSteps
    /\ Len(PostsOf("start")) = 2
    /\ Len(PostsOf("end")) = 2
    /\ \A k \in DOMAIN driver.posts : driver.posts[k].outcome = "error"
    /\ Len(violations_log) >= 1

\* the manager's call is the call without cleanup at the steps that are no
\* multiple of 500 and the call with cleanup at those that are
SweepVariantsAgree ==
    \A current_step \in SweepSteps, tr \in Snapshots(detection_method) :
        check_all_vehicles(manager, tr, current_step, OkEnv)
          = IF current_step % CLEANUP_INTERVAL = 0
            THEN check_all_vehicles_always(manager, tr, current_step, OkEnv)
            ELSE check_all_vehicles_never(manager, tr, current_step, OkEnv)

\* C17: given the same calls with increasing steps, the manager with the
\* cleanup every 500 steps, the one that never cleans up and the one that
\* cleans up in every call have logged the same sequence of violations.
C17_SweepFrequencyIrrelevant ==
    /\ violations_log = shadow.never.violations_log
    /\ violations_log = shadow.always.violations_log

\* C17 witness: the periodic cleanup at step 500 removed an entry that the
\* manager without cleanup still holds, and the last call, after step 500,
\* logged a violation
C17_Witness ==
    /\ step > CLEANUP_INTERVAL
    /\ violations_log # << >>
    /\ violations_log[Len(violations_log)].timestamp = step
    /\ \E i \in DOMAIN radars :
        DOMAIN radars[i].violation_cooldowns
          # DOMAIN shadow.never.radars[i].violation_cooldowns

C18_Step ==
    ( nticks' = nticks + 1 /\ ~ fatal' ) =>
        IF step' % CLEANUP_INTERVAL = 0
        THEN \A i \in DOMAIN radars' : \A v \in DOMAIN radars'[i].violation_cooldowns :
                 step' - radars'[i].violation_cooldowns[v] < cooldown_steps
        ELSE \A i \in DOMAIN radars :
                 DOMAIN radars[i].violation_cooldowns
                     \subseteq DOMAIN radars'[i].violation_cooldowns

\* C18: under every method, when check_all_vehicles returns at a step that
\* is a multiple of 500 (vehicles listed or not) no zone holds a cooldown
\* entry e with step - e >= window; at the other steps no entry is removed.
C18_PeriodicSweep == [][C18_Step]_vars

\* C18 witness: a full-scan manager checked one vehicle in its first call and
\* logged it for both zones; its second call, at step 500 with no vehicle
\* listed (no further check counted), has emptied both tables
C18_Witness ==
    /\ detection_method = METHOD_FULL_SCAN
    /\ ~ fatal
    /\ step = CLEANUP_INTERVAL
    /\ nticks = 2
    /\ Len(violations_log) = 2
    /\ \A i \in DOMAIN radars :
        /\ radars[i].total_checks = 1
        /\ radars[i].total_violations = 1
        /\ radars[i].violation_cooldowns = EmptyDict

\* the snapshot in which the vehicles whose queries raise, and those on an
\* edge whose listing raises, are absent
WithoutMisses(tr) ==
    [ tr EXCEPT
        !.vehicles = [ v \in Vehicles |->
                         IF @[v].status = "gone" \/ @[v].edge \in tr.edge_fail
                         THEN Absent ELSE @[v] ],
        !.edge_fail = {} ]

\* C19: check_vehicle for a vehicle whose position query raises returns None
\* and leaves total_violations and the cooldown table as they were; a call of
\* check_all_vehicles with such vehicles, or with an edge whose listing
\* raises, ends without an exception and logs and records what it does when
\* those vehicles are absent (it may count more checks).
C19_TelemetryMissSkipped ==
    nticks < MaxTicks =>
        \A current_step \in MissSteps, tr \in MissSnapshots(detection_method) :
            current_step > step =>
                LET m == check_all_vehicles(manager, tr, current_step, OkEnv)
                    m0 == check_all_vehicles(manager, WithoutMisses(tr), current_step, OkEnv)
                IN  /\ ~ m.raised
                    /\ m.violations_log = m0.violations_log
                    /\ m.log_file = m0.log_file
                    /\ \A i \in DOMAIN radars :
                        /\ m.radars[i].violation_cooldowns = m0.radars[i].violation_cooldowns
                        /\ m.radars[i].total_violations = m0.radars[i].total_violations
                        /\ m.radars[i].total_checks >= m0.radars[i].total_checks
                        /\ \A v \in Vehicles :
                            tr.vehicles[v].status = "gone" =>
                                LET res == check_vehicle(radars[i], tr, v, current_step)
                                IN  /\ res.violation = None
                                    /\ res.self.violation_cooldowns
                                         = radars[i].violation_cooldowns
                                    /\ res.self.total_violations = radars[i].total_violations

\* C19 witness: in its first call a full-scan manager checked both listed
\* vehicles on both zones; v1, whose queries raised, was passed over and v2,
\* checked after it, was logged by both zones
C19_Witness ==
    /\ detection_method = METHOD_FULL_SCAN
    /\ nticks = 1
    /\ Len(violations_log) = 2
    /\ \A i \in DOMAIN radars :
        /\ radars[i].total_checks = 2
        /\ radars[i].total_violations = 1
        /\ DOMAIN radars[i].violation_cooldowns = {"v2"}

\* the places in http of the posts made for event e
AttemptsFor(e) == { k \in DOMAIN http : http[k].json = e }

\* C20: an event is posted at most twice: once to the primary address and,
\* only when that post raised a connection error, once more to the secondary
\* address right after it; whatever the second post does, no later call posts
\* the event again.
C20_AtMostOneRetry ==
    \A n \in DOMAIN violations_log :
        LET e == violations_log[n]
            at == AttemptsFor(e)
            first == CHOOSE k \in at : \A j \in at : k <= j
        IN  /\ Cardinality(at) <= 2
            /\ Lines(log_file, e) = 1 => at # {}
            /\ at # {} =>
                /\ http[first].url = PRIMARY_URL
                /\ Cardinality(at) = 2 <=> http[first].outcome = "ConnectionError"
                /\ Cardinality(at) = 2 =>
                    ( first + 1 \in at /\ http[first + 1].url = SECONDARY_URL )

\* C20 witness: an event whose two posts both failed was not posted again by
\* the later call that logged another event
C20_Witness ==
    \E n \in DOMAIN violations_log :
        /\ Cardinality(AttemptsFor(violations_log[n])) = 2
        /\ \A k \in AttemptsFor(violations_log[n]) : http[k].outcome # "ok"
        /\ \E j \in DOMAIN violations_log :
            /\ violations_log[j].timestamp > violations_log[n].timestamp
            /\ AttemptsFor(violations_log[j]) # {}

\* the warnings about the zone named id among ws
WarningsAbout(ws, id) ==
    LET Test(w) == w.radar_id = id
    IN  SelectSeq(ws, Test)

\* C21: when the subscription query of a zone raises in two calls in a row,
\* the two calls together print one warning about that zone.
C21_WarnOncePerOutage ==
    (CanTick /\ nticks + 1 < MaxTicks /\ detection_method = METHOD_CONTEXT_SUB) =>
        \A t1 \in StepInputs, t2 \in StepInputs,
           tr1 \in Snapshots(METHOD_CONTEXT_SUB), tr2 \in Snapshots(METHOD_CONTEXT_SUB),
           i \in DOMAIN radars :
            ( /\ step < t1 /\ t1 < t2
              /\ radars[i].id \in tr1.sub_fail
              /\ radars[i].id \in tr2.sub_fail ) =>
                LET m1 == check_all_vehicles(manager, tr1, t1, OkEnv)
                IN  Len(WarningsAbout(subscription_warnings(manager, tr1, 1, t1, OkEnv),
                                      radars[i].id))
                    + Len(WarningsAbout(subscription_warnings(m1, tr2, 1, t2, OkEnv),
                                        radars[i].id))
                    <= 1

C22_Step ==
    ( /\ nticks' = nticks + 1
      /\ call.op = "find_nearby_edges"
      /\ call'.op = "find_nearby_edges"
      /\ call'.radar = call.radar ) =>
        /\ radars' = radars
        /\ call'.queries = 0

\* C22: a call of find_nearby_edges on the zone that the call before it
\* resolved changes nothing and queries nothing, also when that zone has no
\* nearby edge.
C22_ResolveIdempotent == [][C22_Step]_vars

\* C22 witness: a zone without any nearby edge was resolved, with queries,
\* and then resolved again without; the other zone is not resolved yet
C22_Witness ==
    /\ call.op = "find_nearby_edges"
    /\ nticks = 2
    /\ call.queries = 0
    /\ radars[call.radar].edges_initialized
    /\ radars[call.radar].nearby_edges = << >>
    /\ \E i \in DOMAIN radars : ~ radars[i].edges_initialized

\* the lanes of an edge with a shape point in the zone
LanesInZone(zone, edge_id) ==
    { l \in 0 .. getLaneNumber(edge_id) - 1 :
        \E k \in DOMAIN getShape(edge_id, l) : InZone(zone, getShape(edge_id, l)[k]) }

\* C23: a resolved zone's nearby_edges lists exactly the edges that are not
\* internal and have a lane with a shape point in the zone, each of them once.
C23_NearbyEdgesExact ==
    \A i \in DOMAIN radars :
        radars[i].edges_initialized =>
            /\ Range(radars[i].nearby_edges)
                   = { e \in Range(EdgeIDList) :
                         ~ startswith_colon(e) /\ LanesInZone(radars[i], e) # {} }
            /\ \A j \in DOMAIN radars[i].nearby_edges, k \in DOMAIN radars[i].nearby_edges :
                   radars[i].nearby_edges[j] = radars[i].nearby_edges[k] => j = k

\* C23 witness: a resolved zone holds both lanes of e_near and a point of the
\* internal edge, and lists e_near once and the internal edge not at all
C23_Witness ==
    \E i \in DOMAIN radars :
        /\ call.op = "find_nearby_edges"
        /\ call.radar = i
        /\ radars[i].edges_initialized
        /\ LanesInZone(radars[i], "e_near") = {0, 1}
        /\ LanesInZone(radars[i], ":j0") # {}
        /\ "e_near" \in Range(radars[i].nearby_edges)

\* the radars other than number i are in m as they are in the manager
OthersUnchanged(m, i) ==
    \A j \in DOMAIN radars : j # i => m.radars[j] = radars[j]

\* the step just taken is a direct call of check_vehicle or of
\* cleanup_old_cooldowns, and the radars it was not made on are as before
C24_DirectCallFrame ==
    [][ nticks' = nticks + 1 =>
          \A j \in DOMAIN radars : j # call'.radar => radars'[j] = radars[j] ]_vars

\* C24: a check_vehicle call on a zone, the processing of a zone by each of
\* the three methods (its nearby vehicles, its subscription results with the
\* fallback, the full scan of the zone) and the sweep leave every other zone's
\* record, cooldown table and counters included, as it was; the sweep of all
\* zones gives each zone what its own sweep gives.
C24_ZonesDoNotInterfere ==
    CanTick =>
        \A current_step \in StepInputs, tr \in Snapshots(detection_method),
           env \in DiskEnvironments, i \in DOMAIN radars :
            current_step > step =>
                /\ \A vehicle_id \in Vehicles :
                       OthersUnchanged(CheckAndLog(manager, tr, i, vehicle_id, current_step, env), i)
                /\ OthersUnchanged(
                       CheckPairs(manager, tr,
                           PairsOfRadar(Filter(tr.order, get_nearby_vehicles(radars[i], tr)), i),
                           current_step, env), i)
                /\ OthersUnchanged(SubscriptionRadar(manager, tr, i, current_step, env), i)
                /\ OthersUnchanged(check_radar_full_scan(manager, tr, i, current_step, env), i)
                /\ CleanupAll(manager, current_step).radars[i]
                       = cleanup_old_cooldowns(radars[i], current_step)

\* C24 witness: R2 holds a count and a cooldown entry of a vehicle, later than
\* R1's entry of it, and R1 is about to catch that vehicle again
C24_Witness ==
    /\ CanTick
    /\ radars[2].total_violations > 0
    /\ "v1" \in DOMAIN radars[2].violation_cooldowns
    /\ "v1" \in DOMAIN radars[1].violation_cooldowns
    /\ radars[2].violation_cooldowns["v1"] > radars[1].violation_cooldowns["v1"]
    /\ \E current_step \in StepInputs, tr \in Snapshots(detection_method) :
        /\ current_step > step
        /\ CheckAndLog(manager, tr, 1, "v1", current_step, OkEnv).radars[1].total_violations
               = radars[1].total_violations + 1

\* C25: every violation posted to the backend is already written to the log
\* file, and a call of _log_violation that returns has written its violation
\* to the file; a call whose write fails posts nothing.
C25_LoggedBeforeSent ==
    /\ \A k \in DOMAIN http : Lines(log_file, http[k].json) >= 1
    /\ CanTickNet =>
        \A current_step \in NetSteps, env \in Environments,
           i \in DOMAIN radars, vehicle_id \in Vehicles :
            current_step > step =>
                LET violation == Violation(radars[i], vehicle_id, current_step, <<1, 0>>, 3)
                    m == log_violation(manager, violation, env)
                IN  /\ ~ m.raised => Lines(m.log_file, violation) = 1
                    /\ \A k \in DOMAIN m.http :
                        k > Len(http) =>
                            /\ m.http[k].json = violation
                            /\ Lines(m.log_file, violation) = 1
                    /\ Lines(m.log_file, violation) = 0 => m.http = http

\* C25 witness: violations were posted, one of them to the second address,
\* and a later violation whose write failed is in memory only
C25_Witness ==
    /\ fatal
    /\ \E k \in DOMAIN http : http[k].url = SECONDARY_URL
    /\ \E j \in DOMAIN violations_log :
        /\ Lines(log_file, violations_log[j]) = 0
        /\ \A k \in DOMAIN http : http[k].json # violations_log[j]

\* a tick is made with the number of the ticks made before it, after the
\* advance of its step; an advance is made when every advance before it has
\* had its tick
C26_Step ==
    /\ nticks' = nticks + 1 =>
           /\ step' = nticks
           /\ driver.advances = nticks + 1
    /\ driver'.advances # driver.advances =>
           /\ driver'.advances = driver.advances + 1
           /\ nticks = driver.advances
           /\ driver'.advances <= RunSteps

\* the loop is left by its test only after RunSteps advances and ticks
C26_ExitAfterRunSteps ==
    /\ nticks <= driver.advances
    /\ driver.advances <= RunSteps
    /\ driver.pc \in {"notify_end", "done"} =>
           (nticks = RunSteps /\ driver.advances = RunSteps /\ step = RunSteps - 1)

\* C26: the loop of simulation.py calls check_all_vehicles once per
\* simulationStep, after it and before the next one, with the step numbers
\* 0, 1, 2, ... in order, and the script ends: by the loop test after the
\* fixed number of steps, or before by an exception leaving a call.
C26_OneTickPerStep ==
    /\ [][C26_Step]_vars
    /\ []C26_ExitAfterRunSteps
    /\ <>(driver.pc \in {"done", "crashed"})

\* C26 witness: the loop was left after the tick of the last step
C26_Witness ==
    /\ driver.pc = "notify_end"
    /\ nticks = RunSteps
    /\ step = RunSteps - 1
    /\ driver.advances = RunSteps
    /\ Len(violations_log) >= 1

\* the open or write of the log file raises
FailEnv == [disk |-> "OSError", primary |-> "ok", secondary |-> "ok"]

\* no zone and vehicle have two events among vs
OnePerPair(vs) ==
    \A j \in DOMAIN vs, k \in DOMAIN vs :
        ( vs[j].radar_id = vs[k].radar_id /\ vs[j].vehicle_id = vs[k].vehicle_id ) => j = k

\* zone number i of manager m processes its subscription results vehicle_ids,
\* the log write of the vehicle number fail_at raises, and the except branch
\* checks the zone by the full scan
RECURSIVE FailPartway(_, _, _, _, _, _, _)
FailPartway(m, tr, i, vehicle_ids, n, fail_at, current_step) ==
    IF m.raised
    THEN check_radar_full_scan([m EXCEPT !.raised = FALSE], tr, i, current_step, OkEnv)
    ELSE IF n > Len(vehicle_ids) THEN m
    ELSE FailPartway(SubscriptionVehicle(m, tr, i, vehicle_ids[n], current_step,
                                         IF n = fail_at THEN FailEnv ELSE OkEnv),
                     tr, i, vehicle_ids, n + 1, fail_at, current_step)

\* C27: under the subscription method a call logs at most one event per zone
\* and vehicle, also when a subscription query raises, when the log write
\* raises, and when the log write raises for one vehicle of a zone after
\* other vehicles of its subscription results have been processed.
C27_OneEventPerPairWithFallback ==
    (CanTick /\ detection_method = METHOD_CONTEXT_SUB) =>
        \A current_step \in StepInputs, tr \in Snapshots(METHOD_CONTEXT_SUB) :
            current_step > step =>
                /\ \A env \in DiskEnvironments :
                       OnePerPair(NewViolations(manager,
                                      check_all_vehicles(manager, tr, current_step, env)))
                /\ \A i \in DOMAIN radars, fail_at \in 1 .. Cardinality(Vehicles) :
                       OnePerPair(NewViolations(manager,
                                      FailPartway(manager, tr, i,
                                                  getContextSubscriptionResults(tr, radars[i]),
                                                  1, fail_at, current_step)))

\* C27 witness: a log write raised inside the subscription processing of a
\* zone, the fallback went over the zone, and the event whose write raised is
\* in memory once, with its cooldown entry, while processing goes on
C27_Witness ==
    /\ detection_method = METHOD_CONTEXT_SUB
    /\ ~ fatal
    /\ \E j \in DOMAIN violations_log, i \in DOMAIN radars :
        /\ Lines(log_file, violations_log[j]) = 0
        /\ violations_log[j].radar_id = radars[i].id
        /\ radars[i].total_checks > 0
        /\ violations_log[j].vehicle_id \in DOMAIN radars[i].violation_cooldowns
        /\ radars[i].violation_cooldowns[violations_log[j].vehicle_id]
               = violations_log[j].timestamp
        /\ Lines(violations_log, violations_log[j]) = 1

\* C28: each zone has counted at least as many checks as violations.
C28_ViolationsAtMostChecks ==
    \A i \in DOMAIN radars : radars[i].total_violations <= radars[i].total_checks

\* the same under the methods that call check_vehicle for every check
C28_UnderEdgeAndFullScan ==
    detection_method # METHOD_CONTEXT_SUB => C28_ViolationsAtMostChecks

\* the events of the zone named id in the manager's violations_log
LoggedFor(id) ==
    LET Test(e) == e.radar_id = id
    IN  Count(violations_log, Test)

\* C29: each zone's total_violations is the number of events of that zone in
\* the manager's violations_log, and the total of get_statistics is the
\* length of violations_log.
C29_CountersMatchLog ==
    /\ \A i \in DOMAIN radars :
        /\ radars[i].total_violations = LoggedFor(radars[i].id)
        /\ get_statistics(manager).violations_by_radar[radars[i].id]
               = LoggedFor(radars[i].id)
    /\ get_statistics(manager).total_violations = Len(violations_log)

\* C29 witness: after calls whose log writes succeeded the two zones have
\* different counts, and a vehicle was suppressed in one of the calls
C29_Witness ==
    /\ ~ fatal
    /\ log_file = violations_log
    /\ radars[1].total_violations = 2
    /\ radars[2].total_violations = 1
    /\ Len(violations_log) = 3
    /\ nticks >= 2

C30_Step ==
    ( CheckVehicleStep /\ ret' = None ) =>
        LET i == call'.radar
            tr == SnapshotOf(call'.vehicle_id, call'.vehicle)
            sub == SubscriptionVehicle(manager, tr, i, call'.vehicle_id,
                                       call'.current_step, OkEnv)
        IN  /\ radars'[i].violation_cooldowns = radars[i].violation_cooldowns
            /\ radars'[i].total_violations = radars[i].total_violations
            /\ call'.vehicle_id \in Offered(tr, i) =>
                   /\ sub.violations_log = violations_log
                   /\ sub.radars[i].violation_cooldowns = radars[i].violation_cooldowns
                   /\ sub.radars[i].total_violations = radars[i].total_violations

\* C30: a check_vehicle call that returns None leaves the zone's cooldown
\* table and total_violations as they were, whatever made it return None, and
\* so does the inline check of the subscription method on the same input; the
\* entry of a suppressed vehicle keeps the step of its last violation.
C30_NoneChangesNothing == [][C30_Step]_vars

\* C30 witness: a vehicle speeding inside the zone was suppressed in two calls
\* in a row, and its entry is still the step of its violation
C30_Witness ==
    /\ call.op = "check_vehicle"
    /\ ret = None
    /\ nticks = 3
    /\ call.vehicle.status = "present"
    /\ InZone(radars[call.radar], call.vehicle.pos)
    /\ call.vehicle.speed > radars[call.radar].speed_limit
    /\ radars[call.radar].total_checks = 3
    /\ radars[call.radar].total_violations = 1
    /\ call.vehicle_id \in DOMAIN radars[call.radar].violation_cooldowns
    /\ radars[call.radar].violation_cooldowns[call.vehicle_id] < call.current_step - 1

\* the steps of the events of zone id and vehicle vid in violations_log
EventSteps(id, vid) ==
    { violations_log[k].timestamp :
        k \in { n \in DOMAIN violations_log :
                  /\ violations_log[n].radar_id = id
                  /\ violations_log[n].vehicle_id = vid } }

\* C31: every entry of a zone's cooldown table is a step not after the last
\* call's step and is the step of the latest event of that zone and vehicle
\* in violations_log; a zone and vehicle without an event have no entry.
C31_EntryIsLatestEvent ==
    \A i \in DOMAIN radars : \A vid \in DOMAIN radars[i].violation_cooldowns :
        LET entry == radars[i].violation_cooldowns[vid]
        IN  /\ entry <= step
            /\ entry \in EventSteps(radars[i].id, vid)
            /\ \A t \in EventSteps(radars[i].id, vid) : t <= entry

\* C31 witness: a zone holds for a vehicle the step of the later of its two
\* events, and a sweep has removed the entry of a zone and vehicle that have
\* an event
C31_Witness ==
    /\ ~ fatal
    /\ \E i \in DOMAIN radars : \E vid \in DOMAIN radars[i].violation_cooldowns :
        /\ Cardinality(EventSteps(radars[i].id, vid)) = 2
        /\ radars[i].violation_cooldowns[vid] = step
    /\ \E i \in DOMAIN radars, vid \in Vehicles :
        /\ EventSteps(radars[i].id, vid) # {}
        /\ vid \notin DOMAIN radars[i].violation_cooldowns

=============================================================================
